---------------------------- MODULE Spec2Model ----------------------------
(***************************************************************************)
(* The simulation engine of the air-traffic-control simulator              *)
(* (backend/src/flight_simulator.py) with the aircraft generator and the   *)
(* scoring ledger it owns, and the server that drives it                   *)
(* (backend/src/server.py, backend/src/websocket_handler.py).              *)
(*                                                                         *)
(* Number representation.  The engine computes in floating point; the      *)
(* model holds every quantity in fixed point:                              *)
(*   altitude         feet                                                 *)
(*   speed            knots                                                *)
(*   heading          tenths of a degree                                   *)
(*   x, y             1/PosScale of a nautical mile                        *)
(*   simulation_time  ticks of Config.UPDATE_RATE (0.1 s)                  *)
(* so that one tick climbs 150 ft, turns 3 tenths and accelerates 1 kt,    *)
(* exactly the products rate * delta_time of update_aircraft.              *)
(***************************************************************************)
EXTENDS Integers, Sequences, FiniteSets, TLC

(***************************************************************************)
(* Bounds of the model.                                                    *)
(***************************************************************************)
MaxAircraft == 3
MaxTicks == 2
MaxCommands == 1
MaxScenarios == 2
MaxViewers == 2
MaxHandled == 2
MaxLandings == 5
MaxViolations == 4

(***************************************************************************)
(* Program constants (config.py).                                          *)
(***************************************************************************)
HORIZONTAL_SEPARATION == 3
VERTICAL_SEPARATION == 1000
MIN_ALTITUDE == 0
MAX_ALTITUDE == 50000
MIN_SPEED == 100
MAX_SPEED == 500
LANDING_POINTS == 100
VIOLATION_PENALTY == -50

\* speed / 3600 converts knots to nautical miles per second; positions are
\* kept in units of 1/3600 nm, so a speed of s knots covers s units a second.
PosScale == 3600

\* delta_time = Config.UPDATE_RATE = 0.1 s: the per-tick rates of
\* update_aircraft, in the model's units.
ClimbRate == 150
TurnRate == 3
AccelRate == 1
\* displacement per tick = speed * PosScale / 3600 * 0.1 = speed / TickDiv units
TickDiv == 10

Abs(n) == IF n < 0 THEN -n ELSE n

\* math.copysign(rate, diff)
CopySign(rate, diff) == IF diff < 0 THEN -rate ELSE rate

\* Division rounding toward zero (fixed-point counterpart of a float product).
Trunc(n, d) == IF n < 0 THEN -((-n) \div d) ELSE n \div d

(***************************************************************************)
(* math.sin / math.cos of an angle given in tenths of a degree, times      *)
(* 1000.  Bhaskara's rational approximation on [0, 180] degrees, odd       *)
(* continuation below; exact at 0, 30, 90, 150, 180 degrees.               *)
(***************************************************************************)
SinHalf(d) == LET p == d * (1800 - d) IN (1000 * p) \div (1012500 - (p \div 4))

SinMilli(t) ==
    LET d == t % 3600
    IN IF d <= 1800 THEN SinHalf(d) ELSE -SinHalf(d - 1800)

CosMilli(t) == SinMilli(t + 900)


(***************************************************************************)
(* Aircraft generator (aircraft_generator.py).                             *)
(***************************************************************************)
\* f"AC{index:03d}": the prefix and the zero-padded decimal digits of index.
AircraftId(index) ==
    <<"AC", index \div 100, (index \div 10) % 10, index % 10>>

\* An id no aircraft carries.
UnknownId == <<"ZZ", 9, 9, 9>>

\* The random draws of one generate_aircraft call, from small sets:
\* angle (tenths of a degree), distance (position units, within [40, 50] nm),
\* jitter (tenths, within +-30 degrees), altitude (of altitude_options) and the
\* speed drawn in either altitude branch.
GenAngles == {0}
GenDistances == {40 * PosScale}
GenJitters == {0}
GenAltitudes == {3000, 10000}
GenSpeedsLow == {200}
GenSpeedsHigh == {300}

RandomDraws ==
    [angle : GenAngles, distance : GenDistances, jitter : GenJitters,
     altitude : GenAltitudes, speedLow : GenSpeedsLow, speedHigh : GenSpeedsHigh]

\* generate_aircraft with the landing as the target altitude
generate_aircraft_descending(index, r) ==
    LET heading_to_center == (r.angle + 1800) % 3600
        heading == (heading_to_center + r.jitter) % 3600
        speed == IF r.altitude < 10000 THEN r.speedLow ELSE r.speedHigh
    IN [id |-> AircraftId(index),
        x |-> Trunc(r.distance * SinMilli(r.angle), 1000),
        y |-> Trunc(r.distance * CosMilli(r.angle), 1000),
        altitude |-> r.altitude,
        heading |-> heading,
        speed |-> speed,
        targetAltitude |-> 0,
        targetHeading |-> heading,
        targetSpeed |-> speed,
        inConflict |-> FALSE]

generate_aircraft(index, r) ==
    LET heading_to_center == (r.angle + 1800) % 3600
        heading == (heading_to_center + r.jitter) % 3600
        speed == IF r.altitude < 10000 THEN r.speedLow ELSE r.speedHigh
    IN [id |-> AircraftId(index),
        x |-> Trunc(r.distance * SinMilli(r.angle), 1000),
        y |-> Trunc(r.distance * CosMilli(r.angle), 1000),
        altitude |-> r.altitude,
        heading |-> heading,
        speed |-> speed,
        targetAltitude |-> r.altitude,
        targetHeading |-> heading,
        targetSpeed |-> speed,
        inConflict |-> FALSE]

(***************************************************************************)
(* AircraftGenerator.generate_callsign.  A callsign is the sequence of its *)
(* prefix and the decimal digits of its number.                            *)
(***************************************************************************)
max_attempts == 100

DecimalDigit == <<"0", "1", "2", "3", "4", "5", "6", "7", "8", "9">>

RECURSIVE Decimal(_)
Decimal(n) ==
    IF n < 10 THEN <<DecimalDigit[n + 1]>>
    ELSE Append(Decimal(n \div 10), DecimalDigit[(n % 10) + 1])

\* f"{airline}{flight_number}", f"TEST{...}"
Callsign(prefix, number) == <<prefix>> \o Decimal(number)

\* The random draws of one generate_callsign call, from small sets: the
\* airline and flight number of each of the max_attempts attempts, as the
\* callsign line 75 makes of them, and the number of the fallback.
GenAirlines == {"AAL"}
GenFlightNumbers == {100, 101}
GenFallbackNumbers == {1000}

Attempt ==
    {Callsign(airline, flight_number) :
        airline \in GenAirlines, flight_number \in GenFlightNumbers}

\* the attempts of one call: the same draw every time, or one draw 99 times
\* and another at the last attempt
CallsignDraws ==
    [attempts : {[k \in 1..max_attempts |-> IF k < n THEN p ELSE q] :
                    p \in Attempt, q \in Attempt, n \in {1, max_attempts}},
     fallback : GenFallbackNumbers]

\* attempt k draws a callsign that is in used_callsigns
Taken(used, draws, k) == draws.attempts[k] \in used

\* generate_callsign that does not enter the callsign in used_callsigns
generate_callsign_unrecorded(used, draws) ==
    IF \A k \in 1..max_attempts : Taken(used, draws, k)
    THEN [callsign |-> Callsign("TEST", draws.fallback),
          used_callsigns |-> used, attempts |-> max_attempts]
    ELSE LET k == CHOOSE n \in 1..max_attempts :
                    /\ ~Taken(used, draws, n)
                    /\ \A m \in 1..(n - 1) : Taken(used, draws, m)
             callsign == draws.attempts[k]
         IN [callsign |-> callsign, used_callsigns |-> used, attempts |-> k]

\* the for loop, by its outcome: the callsign of the first attempt that is
\* not in used_callsigns, entered in the set, or the fallback when all
\* max_attempts attempts are taken; with the set used_callsigns after the
\* call and the number of attempts made
generate_callsign(used, draws) ==
    IF \A k \in 1..max_attempts : Taken(used, draws, k)
    THEN [callsign |-> Callsign("TEST", draws.fallback),
          used_callsigns |-> used, attempts |-> max_attempts]
    ELSE LET k == CHOOSE n \in 1..max_attempts :
                    /\ ~Taken(used, draws, n)
                    /\ \A m \in 1..(n - 1) : Taken(used, draws, m)
             callsign == draws.attempts[k]
         IN [callsign |-> callsign,
             used_callsigns |-> used \cup {callsign}, attempts |-> k]

(***************************************************************************)
(* The live collection self.aircraft is a Python dict: an insertion-       *)
(* ordered map from id to aircraft.  It is a sequence of aircraft records, *)
(* each carrying its key in the field id.                                  *)
(***************************************************************************)
Ids(ac) == {ac[i].id : i \in 1..Len(ac)}

\* self.aircraft.get(aircraft_id): the position of the entry, 0 for None
DictIndex(ac, id) ==
    IF \E i \in 1..Len(ac) : ac[i].id = id
    THEN CHOOSE i \in 1..Len(ac) : ac[i].id = id
    ELSE 0

\* self.aircraft[id] = a: an existing key keeps its place, a new one is appended
DictSet(ac, a) ==
    LET i == DictIndex(ac, a.id)
    IN IF i = 0 THEN Append(ac, a) ELSE [ac EXCEPT ![i] = a]

\* del self.aircraft[id]
DictDel(ac, id) == SelectSeq(ac, LAMBDA a : a.id # id)

(***************************************************************************)
(* Scoring ledger (scoring_system.py).                                     *)
(***************************************************************************)
NewScoring == [total_score |-> 0, landings |-> 0, violations |-> 0,
               efficiency_bonus |-> 0]

\* the points of a landing with the altitude bonus kept for the last 100 ft
LandingPoints_low_approach(a) ==
    LET speed_bonus == IF a.speed < 150 THEN 20
                       ELSE IF a.speed < 170 THEN 10 ELSE 0
        altitude_bonus == IF a.altitude < 100 THEN 10 ELSE 0
    IN LANDING_POINTS + speed_bonus + altitude_bonus

LandingPoints(a) ==
    LET speed_bonus == IF a.speed < 150 THEN 20
                       ELSE IF a.speed < 170 THEN 10 ELSE 0
        altitude_bonus == IF a.altitude < 1000 THEN 10 ELSE 0
    IN LANDING_POINTS + speed_bonus + altitude_bonus

calculate_landing_points(sc, a) ==
    [sc EXCEPT !.total_score = @ + LandingPoints(a), !.landings = @ + 1]

apply_violation_penalty(sc) ==
    [sc EXCEPT !.total_score = @ + VIOLATION_PENALTY, !.violations = @ + 1]

\* get_grade that looks at the landings before the violations
get_grade_by_landings(sc) ==
    IF sc.violations = 0 /\ sc.landings >= 5 THEN "A+"
    ELSE IF sc.violations = 0 THEN "A"
    ELSE IF sc.landings >= 3 THEN "B"
    ELSE IF sc.violations <= 2 THEN "C"
    ELSE IF sc.violations <= 3 THEN "D"
    ELSE "F"

get_grade(sc) ==
    IF sc.violations = 0 /\ sc.landings >= 5 THEN "A+"
    ELSE IF sc.violations = 0 THEN "A"
    ELSE IF sc.violations <= 1 /\ sc.landings >= 3 THEN "B"
    ELSE IF sc.violations <= 2 THEN "C"
    ELSE IF sc.violations <= 3 THEN "D"
    ELSE "F"

(***************************************************************************)
(* Per-aircraft kinematics (FlightSimulator.update_aircraft).              *)
(***************************************************************************)
get_heading_difference(current, target) ==
    LET d0 == target - current
        d1 == IF d0 > 1800 THEN d0 - 3600 ELSE d0
    IN IF d1 < -1800 THEN d1 + 3600 ELSE d1

NextAltitude(a) ==
    IF a.targetAltitude # a.altitude
    THEN LET alt_diff == a.targetAltitude - a.altitude
         IN IF Abs(alt_diff) < ClimbRate
            THEN a.targetAltitude
            ELSE a.altitude + CopySign(ClimbRate, alt_diff)
    ELSE a.altitude

NextHeading(a) ==
    IF a.targetHeading # a.heading
    THEN LET heading_diff == get_heading_difference(a.heading, a.targetHeading)
         IN IF Abs(heading_diff) < TurnRate
            THEN a.targetHeading
            ELSE (a.heading + CopySign(TurnRate, heading_diff)) % 3600
    ELSE a.heading

NextSpeed(a) ==
    IF a.targetSpeed # a.speed
    THEN LET speed_diff == a.targetSpeed - a.speed
         IN IF Abs(speed_diff) < AccelRate
            THEN a.targetSpeed
            ELSE a.speed + CopySign(AccelRate, speed_diff)
    ELSE a.speed

update_aircraft(a) ==
    [a EXCEPT !.x = @ + Trunc(SinMilli(a.heading) * a.speed, 1000 * TickDiv),
              !.y = @ + Trunc(CosMilli(a.heading) * a.speed, 1000 * TickDiv),
              !.altitude = NextAltitude(a),
              !.heading = NextHeading(a),
              !.speed = NextSpeed(a)]

\* sqrt(dx^2 + dy^2) < r nautical miles.  The squares are taken only when both
\* legs are below r, which keeps them within the 32-bit integers.
WithinNm(dx, dy, r) ==
    /\ Abs(dx) < r * PosScale
    /\ Abs(dy) < r * PosScale
    /\ dx * dx + dy * dy < (r * PosScale) * (r * PosScale)

check_landing(a) == WithinNm(a.x, a.y, 2) /\ a.altitude < 500


(***************************************************************************)
(* Engine state (FlightSimulator.__init__).                                *)
(***************************************************************************)
VARIABLES
    aircraft,           \* self.aircraft, the live collection
    is_paused,          \* self.is_paused
    current_scenario,   \* self.current_scenario
    simulation_time,    \* self.simulation_time, in ticks
    scoring,            \* self.scoring_system
    last,               \* history: the last call (see Called)
    before,             \* history: the engine when the last call was made
                        \*          (of reset and start_scenario: its ledger)
    commands,           \* history: execute_command calls that changed the
                        \*          engine since the last reset
    used_callsigns,     \* self.aircraft_generator.used_callsigns
    issued,             \* history: what the generator has handed out (see
                        \*          NoneIssued)
    active_connections, \* server.active_connections
    simulation_task,    \* server.simulation_task: "none", "running", "done"
    viewer,             \* each connection's websocket_endpoint coroutine:
                        \*          "new", "open" (in its receive loop), "closed"
    loop,               \* the simulation_loop coroutine (see LoopIdle)
    received,           \* history: each viewer's receipt of aircraft_update
                        \*          messages (see NoneReceived)
    handled,            \* history: the viewers' messages handled (see
                        \*          NoneHandled)
    graded              \* history: the last get_grade call (see NotGraded)

vars == <<aircraft, is_paused, current_scenario, simulation_time, scoring,
          last, before, commands, used_callsigns, issued,
          active_connections, simulation_task, viewer, loop, received, handled,
          graded>>

\* current_scenario = None
NoScenario == [name |-> "None", aircraft_count |-> 0]

\* The engine as one value, for the operations below.
Engine == [aircraft |-> aircraft, is_paused |-> is_paused,
           current_scenario |-> current_scenario,
           simulation_time |-> simulation_time, scoring |-> scoring]

(***************************************************************************)
(* FlightSimulator.reset                                                   *)
(***************************************************************************)
\* reset without self.aircraft.clear()
reset_keeps_aircraft(e) ==
    [e EXCEPT !.simulation_time = 0,
              !.is_paused = FALSE,
              !.current_scenario = NoScenario]

\* reset that also resets the scoring system
reset_with_ledger(e) ==
    [e EXCEPT !.aircraft = <<>>,
              !.simulation_time = 0,
              !.is_paused = FALSE,
              !.current_scenario = NoScenario,
              !.scoring = NewScoring]

reset(e) ==
    [e EXCEPT !.aircraft = <<>>,
              !.simulation_time = 0,
              !.is_paused = FALSE,
              !.current_scenario = NoScenario]

(***************************************************************************)
(* FlightSimulator.start_scenario: draws[i + 1] are the random draws of    *)
(* generate_aircraft(i).                                                   *)
(***************************************************************************)
\* scenario.get("aircraft_count", 3)
AircraftCount(scenario) ==
    IF "aircraft_count" \in DOMAIN scenario THEN scenario.aircraft_count ELSE 3

RECURSIVE GenerateLoop(_, _, _, _)
GenerateLoop(ac, i, count, draws) ==
    IF i >= count THEN ac
    ELSE GenerateLoop(DictSet(ac, generate_aircraft(i, draws[i + 1])),
                      i + 1, count, draws)

start_scenario(e, scenario, draws) ==
    LET e1 == reset(e)
        e2 == [e1 EXCEPT !.current_scenario = scenario]
    IN [e2 EXCEPT !.aircraft =
            GenerateLoop(e2.aircraft, 0, AircraftCount(scenario), draws)]

(***************************************************************************)
(* FlightSimulator.check_conflicts: the two nested loops, each pair        *)
(* assigning the flags of both its aircraft.                               *)
(***************************************************************************)
Violating(a1, a2) ==
    /\ WithinNm(a1.x - a2.x, a1.y - a2.y, HORIZONTAL_SEPARATION)
    /\ Abs(a1.altitude - a2.altitude) < VERTICAL_SEPARATION

RECURSIVE ConflictLoop(_, _, _)
ConflictLoop(ac, i, j) ==
    IF i > Len(ac) THEN ac
    ELSE IF j > Len(ac) THEN ConflictLoop(ac, i + 1, i + 2)
    ELSE LET v == Violating(ac[i], ac[j])
         IN ConflictLoop([ac EXCEPT ![i].inConflict = v, ![j].inConflict = v],
                         i, j + 1)

check_conflicts(ac) == ConflictLoop(ac, 1, 2)

(***************************************************************************)
(* FlightSimulator.handle_landing and the loop of FlightSimulator.update   *)
(* over list(self.aircraft.items()).  st = [aircraft, scoring].            *)
(***************************************************************************)
\* handle_landing that removes the aircraft without scoring it
handle_landing_unscored(st, aircraft_id) ==
    [st EXCEPT !.aircraft = DictDel(@, aircraft_id)]

\* handle_landing that scores the aircraft without removing it
handle_landing_kept(st, aircraft_id) ==
    LET i == DictIndex(st.aircraft, aircraft_id)
    IN IF i = 0 THEN st
       ELSE [st EXCEPT !.scoring =
                calculate_landing_points(@, st.aircraft[i])]

handle_landing(st, aircraft_id) ==
    LET i == DictIndex(st.aircraft, aircraft_id)
    IN IF i = 0 THEN st
       ELSE [aircraft |-> DictDel(st.aircraft, aircraft_id),
             scoring |-> calculate_landing_points(st.scoring, st.aircraft[i])]

\* the loop of update with the landing scored on the aircraft as it was before
\* its kinematic step
RECURSIVE UpdateLoop_scoring_arrival(_, _, _)
UpdateLoop_scoring_arrival(items, k, st) ==
    IF k > Len(items) THEN st
    ELSE LET a == update_aircraft(items[k])
             st1 == [st EXCEPT !.aircraft = DictSet(@, a)]
         IN UpdateLoop_scoring_arrival(items, k + 1,
               IF check_landing(a)
               THEN [aircraft |-> DictDel(st1.aircraft, a.id),
                     scoring |-> calculate_landing_points(st1.scoring, items[k])]
               ELSE st1)

RECURSIVE UpdateLoop(_, _, _)
UpdateLoop(items, k, st) ==
    IF k > Len(items) THEN st
    ELSE LET a == update_aircraft(items[k])
             st1 == [st EXCEPT !.aircraft = DictSet(@, a)]
         IN UpdateLoop(items, k + 1,
                       IF check_landing(a) THEN handle_landing(st1, a.id)
                       ELSE st1)

\* update without the is_paused check
update_ignoring_pause(e) ==
    LET st == UpdateLoop(e.aircraft, 1,
                         [aircraft |-> e.aircraft, scoring |-> e.scoring])
    IN [e EXCEPT !.simulation_time = @ + 1,
                 !.aircraft = check_conflicts(st.aircraft),
                 !.scoring = st.scoring]

\* update whose conflict sweep runs over the aircraft that land in the tick too
update_sweeping_landed(e) ==
    IF e.is_paused THEN e
    ELSE LET st == UpdateLoop(e.aircraft, 1,
                              [aircraft |-> e.aircraft, scoring |-> e.scoring])
             moved == [k \in 1..Len(e.aircraft) |-> update_aircraft(e.aircraft[k])]
         IN [e EXCEPT !.simulation_time = @ + 1,
                      !.aircraft = SelectSeq(check_conflicts(moved),
                                       LAMBDA a : a.id \in Ids(st.aircraft)),
                      !.scoring = st.scoring]

\* update that applies the violation penalty when its sweep flags an aircraft
update_penalising(e) ==
    IF e.is_paused THEN e
    ELSE LET st == UpdateLoop(e.aircraft, 1,
                              [aircraft |-> e.aircraft, scoring |-> e.scoring])
             swept == check_conflicts(st.aircraft)
         IN [e EXCEPT !.simulation_time = @ + 1,
                      !.aircraft = swept,
                      !.scoring =
                          IF \E i \in 1..Len(swept) : swept[i].inConflict
                          THEN apply_violation_penalty(st.scoring)
                          ELSE st.scoring]

update(e) ==
    IF e.is_paused THEN e
    ELSE LET st == UpdateLoop(e.aircraft, 1,
                              [aircraft |-> e.aircraft, scoring |-> e.scoring])
         IN [e EXCEPT !.simulation_time = @ + 1,
                      !.aircraft = check_conflicts(st.aircraft),
                      !.scoring = st.scoring]

(***************************************************************************)
(* Command values.  A value is a number (kind "num", in n), a string (kind *)
(* "str", its characters in s) or null (kind "null").                      *)
(***************************************************************************)
Num(n) == [kind |-> "num", n |-> n, s |-> <<>>]
Str(s) == [kind |-> "str", n |-> 0, s |-> s]
Null == [kind |-> "null", n |-> 0, s |-> <<>>]

Digits == <<"0", "1", "2", "3", "4", "5", "6", "7", "8", "9">>
IsDigit(c) == \E d \in 1..10 : Digits[d] = c
DigitValue(c) == (CHOOSE d \in 1..10 : Digits[d] = c) - 1

RECURSIVE ParseDigits(_, _)
ParseDigits(s, acc) ==
    IF s = <<>> THEN acc ELSE ParseDigits(Tail(s), 10 * acc + DigitValue(Head(s)))

\* the string is an optionally signed decimal integer literal
IsNumeric(s) ==
    LET body == IF s # <<>> /\ Head(s) = "-" THEN Tail(s) ELSE s
    IN body # <<>> /\ \A i \in 1..Len(body) : IsDigit(body[i])

\* float(value) raises (TypeError for None, ValueError for a non-numeric string)
FloatRaises(v) ==
    \/ v.kind = "null"
    \/ v.kind = "str" /\ ~IsNumeric(v.s)

\* float(value) where it does not raise
Float(v) ==
    IF v.kind = "num" THEN v.n
    ELSE IF Head(v.s) = "-" THEN -ParseDigits(Tail(v.s), 0)
    ELSE ParseDigits(v.s, 0)

\* value > aircraft['altitude'] raises TypeError for a string
CompareRaises(v) == v.kind # "num"

(***************************************************************************)
(* FlightSimulator.execute_command: [e |-> the engine after, ok |-> result]*)
(***************************************************************************)
\* execute_command whose "cleared" puts the aircraft down at once
execute_command_setting_down(e, aircraft_id, command, value) ==
    LET i == DictIndex(e.aircraft, aircraft_id)
        Set(a) == [e EXCEPT !.aircraft[i] = a]
        a == e.aircraft[i]
    IN IF i = 0 THEN [e |-> e, ok |-> FALSE]
       ELSE IF command = "heading" THEN
            IF FloatRaises(value) THEN [e |-> e, ok |-> FALSE]
            ELSE [e |-> Set([a EXCEPT !.targetHeading = 10 * Float(value)]),
                  ok |-> TRUE]
       ELSE IF command = "altitude" THEN
            IF FloatRaises(value) THEN [e |-> e, ok |-> FALSE]
            ELSE [e |-> Set([a EXCEPT !.targetAltitude = Float(value)]),
                  ok |-> ~CompareRaises(value)]
       ELSE IF command = "speed" THEN
            IF FloatRaises(value) THEN [e |-> e, ok |-> FALSE]
            ELSE [e |-> Set([a EXCEPT !.targetSpeed = Float(value)]),
                  ok |-> TRUE]
       ELSE IF command = "approach" THEN
            [e |-> Set([a EXCEPT !.targetHeading = 0,
                                 !.targetAltitude = 3000,
                                 !.targetSpeed = 180]),
             ok |-> TRUE]
       ELSE IF command = "cleared" THEN
            [e |-> Set([a EXCEPT !.targetHeading = 0,
                                 !.targetAltitude = 0,
                                 !.targetSpeed = 140,
                                 !.altitude = 0]),
             ok |-> TRUE]
       ELSE [e |-> e, ok |-> FALSE]

execute_command(e, aircraft_id, command, value) ==
    LET i == DictIndex(e.aircraft, aircraft_id)
        Set(a) == [e EXCEPT !.aircraft[i] = a]
        a == e.aircraft[i]
    IN IF i = 0 THEN [e |-> e, ok |-> FALSE]
       ELSE IF command = "heading" THEN
            IF FloatRaises(value) THEN [e |-> e, ok |-> FALSE]
            ELSE [e |-> Set([a EXCEPT !.targetHeading = 10 * Float(value)]),
                  ok |-> TRUE]
       ELSE IF command = "altitude" THEN
            IF FloatRaises(value) THEN [e |-> e, ok |-> FALSE]
            ELSE [e |-> Set([a EXCEPT !.targetAltitude = Float(value)]),
                  ok |-> ~CompareRaises(value)]
       ELSE IF command = "speed" THEN
            IF FloatRaises(value) THEN [e |-> e, ok |-> FALSE]
            ELSE [e |-> Set([a EXCEPT !.targetSpeed = Float(value)]),
                  ok |-> TRUE]
       ELSE IF command = "approach" THEN
            [e |-> Set([a EXCEPT !.targetHeading = 0,
                                 !.targetAltitude = 3000,
                                 !.targetSpeed = 180]),
             ok |-> TRUE]
       ELSE IF command = "cleared" THEN
            [e |-> Set([a EXCEPT !.targetHeading = 0,
                                 !.targetAltitude = 0,
                                 !.targetSpeed = 140]),
             ok |-> TRUE]
       ELSE [e |-> e, ok |-> FALSE]

(***************************************************************************)
(* FlightSimulator.toggle_pause                                            *)
(***************************************************************************)
toggle_pause(e) == [e EXCEPT !.is_paused = ~@]


(***************************************************************************)
(* Inputs of the operations, from small sets.                              *)
(***************************************************************************)
Scenarios == {[name |-> "Level", aircraft_count |-> n] : n \in {1, MaxAircraft}}

CommandIds == {AircraftId(0), UnknownId}

Commands == {"heading", "altitude", "speed", "approach", "cleared", "climb"}

CommandValues ==
    {Num(-100), Str(<<"-", "1", "0", "0">>), Str(<<"a", "b", "c">>), Null}

\* the record of a call: its name, its result (execute_command), its command
\* name (execute_command), its scenario (start_scenario), and the pause flag
\* and the number of live aircraft it found
Called(op, ok, command, scenario) ==
    [op |-> op, ok |-> ok, command |-> command, scenario |-> scenario,
     paused |-> is_paused, live |-> Len(aircraft)]

\* what a reset or start_scenario call keeps in before: the ledger it found
LedgerOnly ==
    [aircraft |-> <<>>, is_paused |-> FALSE, current_scenario |-> NoScenario,
     simulation_time |-> 0, scoring |-> scoring]

\* the engine's fields after an operation
Becomes(e) ==
    /\ aircraft' = e.aircraft
    /\ is_paused' = e.is_paused
    /\ current_scenario' = e.current_scenario
    /\ simulation_time' = e.simulation_time
    /\ scoring' = e.scoring

\* history of the generator: the ids generate_aircraft has assigned and the
\* callsigns generate_callsign has returned, in order, the number of
\* start_scenario calls, and the last generate_callsign call (the callsigns
\* its attempts drew, the set used_callsigns before and after, the callsign
\* returned and the number of attempts made)
NoCall == [made |-> FALSE, drawn |-> {}, before |-> {}, after |-> {},
           callsign |-> <<>>, attempts |-> 0]
NoneIssued == [ids |-> <<>>, callsigns |-> <<>>, scenarios |-> 0, call |-> NoCall]

\* AircraftGenerator.__init__
GeneratorInit == used_callsigns = {} /\ issued = NoneIssued

\* no get_grade call yet (of a call: the ledger it found and the grade it
\* returned)
NotGraded == [made |-> FALSE, landings |-> 0, violations |-> 0, grade |-> ""]

\* the engine called directly: the server is not in view
ServerIdle ==
    UNCHANGED <<active_connections, simulation_task, viewer, loop, received,
                handled>>

\* the engine's operations seen without the callsigns they issue: the
\* aircraft record of the model carries no callsign, and the set
\* used_callsigns, which only generate_callsign reads, is followed in
\* SpecGenerator
EngineOnly == UNCHANGED <<used_callsigns, issued, graded>> /\ ServerIdle

(***************************************************************************)
(* The server (server.py): its connections and its simulation_loop task.   *)
(***************************************************************************)
Viewers == 1..MaxViewers

\* No connection, no message
NoViewer == 0
NoMessage == [type |-> "none", data |-> <<>>]

\* simulation_loop: where the coroutine stands (pc: "start" when the task
\* has been created and has not run yet, "sleep" at line 166, "capture"
\* between update() and get_aircraft_data(), "send" at line 157, "ended"
\* once it has returned), the message it made, the iteration over
\* active_connections (the set when the iteration began, the connections
\* visited, the one being sent to) and the set disconnected; as history the
\* number of update() calls made by the loop, the live set when the last
\* one returned, and whether a viewer's message has been handled since the
\* message was made
LoopIdle ==
    [pc |-> "sleep", message |-> NoMessage, members |-> {}, visited |-> {},
     to |-> NoViewer, disconnected |-> {},
     tick |-> 0, returned |-> <<>>, changed |-> FALSE]

\* of a viewer: the tick and data of the last aircraft_update it received,
\* whether every one so far came with a higher tick than the one before,
\* and whether a viewer's message had been handled between the making of
\* that message and its sending to this viewer
NoneReceived ==
    [tick |-> 0, data |-> <<>>, ordered |-> TRUE, late |-> FALSE]

\* the number of viewers' messages handled and where simulation_loop stood
\* when the last one was
NoneHandled == [count |-> 0, at |-> "none"]

\* the module's globals and startup_event
ServerInit ==
    /\ active_connections = {}
    /\ simulation_task = "none"
    /\ viewer = [v \in Viewers |-> "new"]
    /\ loop = LoopIdle
    /\ received = [v \in Viewers |-> NoneReceived]
    /\ handled = NoneHandled

(***************************************************************************)
(* The state after construction.                                           *)
(***************************************************************************)
Init ==
    /\ aircraft = <<>>
    /\ is_paused = FALSE
    /\ current_scenario = NoScenario
    /\ simulation_time = 0
    /\ scoring = NewScoring
    /\ last = Called("init", TRUE, "", NoScenario)
    /\ before = LedgerOnly
    /\ commands = 0
    /\ GeneratorInit
    /\ ServerInit
    /\ graded = NotGraded

(***************************************************************************)
(* One action per engine operation.                                        *)
(***************************************************************************)
StartScenario ==
    \E scenario \in Scenarios :
        \E draws \in [1..AircraftCount(scenario) -> RandomDraws] :
            /\ Becomes(start_scenario(Engine, scenario, draws))
            /\ last' = Called("start_scenario", TRUE, "", scenario)
            /\ before' = LedgerOnly
            /\ commands' = 0
            /\ EngineOnly

Update ==
    /\ is_paused \/ simulation_time < MaxTicks
    /\ Becomes(update(Engine))
    /\ last' = Called("update", TRUE, "", NoScenario)
    /\ before' = Engine
    /\ UNCHANGED commands
    /\ EngineOnly

ExecuteCommand ==
    /\ commands < MaxCommands
    /\ \E aircraft_id \in CommandIds, command \in Commands,
          value \in CommandValues :
            LET r == execute_command(Engine, aircraft_id, command, value)
            IN /\ Becomes(r.e)
               /\ last' = Called("execute_command", r.ok, command, NoScenario)
               /\ commands' = IF r.e = Engine THEN commands ELSE commands + 1
    /\ before' = Engine
    /\ EngineOnly

TogglePause ==
    /\ Becomes(toggle_pause(Engine))
    /\ last' = Called("toggle_pause", TRUE, "", NoScenario)
    /\ before' = Engine
    /\ UNCHANGED commands
    /\ EngineOnly

Reset ==
    /\ Becomes(reset(Engine))
    /\ last' = Called("reset", TRUE, "", NoScenario)
    /\ before' = LedgerOnly
    /\ commands' = 0
    /\ EngineOnly

Next == StartScenario \/ Update \/ ExecuteCommand \/ TogglePause \/ Reset

Spec == Init /\ [][Next]_vars

(***************************************************************************)
(* A second specification, for the cases that lie thousands of ticks after *)
(* start_scenario (the generator places aircraft 40 to 50 nm out and one   *)
(* tick covers under 0.02 nm): the engine as constructed, with aircraft    *)
(* entered in self.aircraft directly, near the landing point, and          *)
(* scenarios of one aircraft started over them.                            *)
(***************************************************************************)
Placed(y, altitude, targetAltitude) ==
    [x |-> 0, y |-> y, altitude |-> altitude, heading |-> 1800, speed |-> 140,
     targetAltitude |-> targetAltitude, targetHeading |-> 1800,
     targetSpeed |-> 140, inConflict |-> FALSE]

PlacedSamples ==
    { Placed(2 * PosScale + 20, 400, 0),    \* descending, 2 ticks from the 2 nm circle
      Placed((3 * PosScale) \div 2, 400, 400),  \* 1.5 nm out at 400 ft
      Placed(3 * PosScale, 100, 100) }      \* 3 nm out, level at 100 ft

\* the sizes of the placed collections
PlacedCounts == {1, 2}

InitPlaced ==
    /\ \E n \in PlacedCounts :
         \E p \in [1..n -> PlacedSamples] :
            aircraft = [i \in 1..n |-> [id |-> AircraftId(i - 1)] @@ p[i]]
    /\ is_paused = FALSE
    /\ current_scenario = NoScenario
    /\ simulation_time = 0
    /\ scoring = NewScoring
    /\ last = Called("init", TRUE, "", NoScenario)
    /\ before = LedgerOnly
    /\ commands = 0
    /\ GeneratorInit
    /\ ServerInit
    /\ graded = NotGraded

\* the scenario started over the placed aircraft: one aircraft
PlacedScenario == [name |-> "Level", aircraft_count |-> 1]

StartScenarioPlaced ==
    \E draws \in [1..AircraftCount(PlacedScenario) -> RandomDraws] :
        /\ Becomes(start_scenario(Engine, PlacedScenario, draws))
        /\ last' = Called("start_scenario", TRUE, "", PlacedScenario)
        /\ before' = LedgerOnly
        /\ commands' = 0
        /\ EngineOnly

NextPlaced ==
    StartScenarioPlaced \/ Update \/ ExecuteCommand \/ TogglePause \/ Reset

SpecPlaced == InitPlaced /\ [][NextPlaced]_vars

(***************************************************************************)
(* A third specification, for steering: the engine as constructed with one *)
(* aircraft entered either 40 nm out, level at 3000 ft and 200 kt, on one  *)
(* of two headings, or on final approach, and an operator who commands     *)
(* headings, altitudes and speeds inside and outside their ranges.         *)
(***************************************************************************)
Steered(heading) ==
    [x |-> 0, y |-> 40 * PosScale, altitude |-> 3000, heading |-> heading,
     speed |-> 200, targetAltitude |-> 3000, targetHeading |-> heading,
     targetSpeed |-> 200, inConflict |-> FALSE]

\* 180 degrees, and 359.7 degrees (one turn step short of north)
SteeredHeadings == {1800, 3597}

\* or: 1 nm north of the origin at 600 ft, heading south, cleared down to the
\* ground and to 140 kt, at one of three speeds
Arriving(speed) ==
    [x |-> 0, y |-> PosScale, altitude |-> 600, heading |-> 1800,
     speed |-> speed, targetAltitude |-> 0, targetHeading |-> 1800,
     targetSpeed |-> 140, inConflict |-> FALSE]

ArrivingSpeeds == {150, 170, 171}

SteeredSamples ==
    {Steered(heading) : heading \in SteeredHeadings}
        \cup {Arriving(speed) : speed \in ArrivingSpeeds}

SteerCommands == {"heading", "altitude", "speed"}

SteerValues == {Num(360), Num(-400), Num(185)}

InitSteered ==
    /\ \E sample \in SteeredSamples :
          aircraft = <<[id |-> AircraftId(0)] @@ sample>>
    /\ is_paused = FALSE
    /\ current_scenario = NoScenario
    /\ simulation_time = 0
    /\ scoring = NewScoring
    /\ last = Called("init", TRUE, "", NoScenario)
    /\ before = LedgerOnly
    /\ commands = 0
    /\ GeneratorInit
    /\ ServerInit
    /\ graded = NotGraded

Steer ==
    /\ commands < MaxCommands
    /\ \E command \in SteerCommands, value \in SteerValues :
            LET r == execute_command(Engine, AircraftId(0), command, value)
            IN /\ Becomes(r.e)
               /\ last' = Called("execute_command", r.ok, command, NoScenario)
               /\ commands' = IF r.e = Engine THEN commands ELSE commands + 1
    /\ before' = Engine
    /\ EngineOnly

NextSteered == Steer \/ Update \/ TogglePause

SpecSteered == InitSteered /\ [][NextSteered]_vars

(***************************************************************************)
(* A fourth specification, for what the generator hands out: the engine    *)
(* as constructed, start_scenario followed into generate_callsign, with    *)
(* update and reset.  Nothing in the program calls AircraftGenerator.reset.*)
(***************************************************************************)
\* the other random draws of generate_aircraft in this specification
GeneratorRandomDraws == {r \in RandomDraws : r.altitude < 10000}

\* the scenarios started in this specification
GeneratorScenarios == {[name |-> "Level", aircraft_count |-> n] : n \in {1, 2}}

\* the generate_aircraft(i) calls of start_scenario from index i on, as the
\* generator sees them: g = [used_callsigns, issued], calls[i + 1] the draws
\* of the generate_callsign call of generate_aircraft(i)
RECURSIVE IssueLoop(_, _, _, _)
IssueLoop(g, i, count, calls) ==
    IF i >= count THEN g
    ELSE LET r == generate_callsign(g.used_callsigns, calls[i + 1])
         IN IssueLoop(
              [used_callsigns |-> r.used_callsigns,
               issued |-> [g.issued EXCEPT
                   !.ids = Append(@, AircraftId(i)),
                   !.callsigns = Append(@, r.callsign),
                   !.call = [made |-> TRUE,
                             drawn |-> {calls[i + 1].attempts[k] :
                                            k \in 1..r.attempts},
                             before |-> g.used_callsigns,
                             after |-> r.used_callsigns,
                             callsign |-> r.callsign,
                             attempts |-> r.attempts]]],
              i + 1, count, calls)

StartScenarioIssuing ==
    /\ issued.scenarios < MaxScenarios
    /\ \E scenario \in GeneratorScenarios :
        \E draws \in [1..AircraftCount(scenario) -> GeneratorRandomDraws],
           calls \in [1..AircraftCount(scenario) -> CallsignDraws] :
            /\ Becomes(start_scenario(Engine, scenario, draws))
            /\ last' = Called("start_scenario", TRUE, "", scenario)
            /\ before' = LedgerOnly
            /\ commands' = 0
            /\ LET g == IssueLoop(
                          [used_callsigns |-> used_callsigns,
                           issued |-> [issued EXCEPT !.scenarios = @ + 1]],
                          0, AircraftCount(scenario), calls)
               IN /\ used_callsigns' = g.used_callsigns
                  /\ issued' = g.issued
    /\ ServerIdle
    /\ UNCHANGED graded

NextGenerator == StartScenarioIssuing \/ Update \/ Reset

SpecGenerator == Init /\ [][NextGenerator]_vars

(***************************************************************************)
(* A specification for the ledger as the engine fills it: the engine as    *)
(* constructed with one or two aircraft entered on final approach at the   *)
(* speed that has both bonuses and at the one that has the altitude bonus  *)
(* only, and every engine operation: the steering commands for the first   *)
(* aircraft, and scenarios of two aircraft, generated at the same place.   *)
(***************************************************************************)
ArrivalCounts == {1, 2}

\* 150 kt (149 kt after the tick) and 171 kt (170 kt after the tick)
ArrivalSpeeds == {150, 171}

InitArrivals ==
    /\ \E n \in ArrivalCounts :
         \E speeds \in [1..n -> ArrivalSpeeds] :
            aircraft = [i \in 1..n |->
                           [id |-> AircraftId(i - 1)] @@ Arriving(speeds[i])]
    /\ is_paused = FALSE
    /\ current_scenario = NoScenario
    /\ simulation_time = 0
    /\ scoring = NewScoring
    /\ last = Called("init", TRUE, "", NoScenario)
    /\ before = LedgerOnly
    /\ commands = 0
    /\ GeneratorInit
    /\ ServerInit
    /\ graded = NotGraded

ArrivalsScenario == [name |-> "Level", aircraft_count |-> 2]

StartScenarioArrivals ==
    \E draws \in [1..AircraftCount(ArrivalsScenario) -> GeneratorRandomDraws] :
        /\ Becomes(start_scenario(Engine, ArrivalsScenario, draws))
        /\ last' = Called("start_scenario", TRUE, "", ArrivalsScenario)
        /\ before' = LedgerOnly
        /\ commands' = 0
        /\ EngineOnly

NextArrivals ==
    StartScenarioArrivals \/ Update \/ Steer \/ TogglePause \/ Reset

SpecArrivals == InitArrivals /\ [][NextArrivals]_vars

(***************************************************************************)
(* A specification for the aircraft as generated: the engine as            *)
(* constructed, with scenarios of one and two aircraft drawn over two      *)
(* jitters, altitudes and speeds, and a command for the first aircraft     *)
(* only.                                                                   *)
(***************************************************************************)
CruiseDraws ==
    [angle : {450}, distance : {40 * PosScale}, jitter : {-300, 300},
     altitude : {3000, 10000}, speedLow : {180}, speedHigh : {350}]

CruiseScenarios == {[name |-> "Level", aircraft_count |-> n] : n \in {1, 2}}

StartScenarioCruise ==
    \E scenario \in CruiseScenarios :
        \E draws \in [1..AircraftCount(scenario) -> CruiseDraws] :
            /\ Becomes(start_scenario(Engine, scenario, draws))
            /\ last' = Called("start_scenario", TRUE, "", scenario)
            /\ before' = LedgerOnly
            /\ commands' = 0
            /\ EngineOnly

\* the command of this specification
CruiseCommand == [aircraftId |-> AircraftId(0), command |-> "altitude",
                  value |-> Num(5000)]

ExecuteCruiseCommand ==
    /\ commands < MaxCommands
    /\ LET r == execute_command(Engine, CruiseCommand.aircraftId,
                                CruiseCommand.command, CruiseCommand.value)
       IN /\ Becomes(r.e)
          /\ last' = Called("execute_command", r.ok, CruiseCommand.command,
                            NoScenario)
          /\ commands' = IF r.e = Engine THEN commands ELSE commands + 1
    /\ before' = Engine
    /\ EngineOnly

NextCruise ==
    StartScenarioCruise \/ Update \/ ExecuteCruiseCommand \/ TogglePause

SpecCruise == Init /\ [][NextCruise]_vars

(***************************************************************************)
(* A specification of the scoring ledger on its own: the ScoringSystem as  *)
(* constructed, with its methods called in any order.  The engine calls    *)
(* calculate_landing_points only; the grade depends on the counter         *)
(* violations, which apply_violation_penalty alone advances.               *)
(***************************************************************************)
\* the aircraft handed to calculate_landing_points: speed and altitude
LedgerArrivals ==
    {[speed |-> speed, altitude |-> altitude] :
        speed \in {149, 169, 170}, altitude \in {400, 1000}}

\* the ledger changes, the engine is not in view
LedgerBecomes(sc) ==
    /\ scoring' = sc
    /\ UNCHANGED <<aircraft, is_paused, current_scenario, simulation_time,
                   last, before, commands, used_callsigns, issued>>
    /\ ServerIdle

CalculateLandingPoints ==
    /\ scoring.landings < MaxLandings
    /\ \E a \in LedgerArrivals :
          LedgerBecomes(calculate_landing_points(scoring, a))
    /\ UNCHANGED graded

ApplyViolationPenalty ==
    /\ scoring.violations < MaxViolations
    /\ LedgerBecomes(apply_violation_penalty(scoring))
    /\ UNCHANGED graded

GetGrade ==
    /\ graded' = [made |-> TRUE, landings |-> scoring.landings,
                  violations |-> scoring.violations,
                  grade |-> get_grade(scoring)]
    /\ LedgerBecomes(scoring)

NextLedger == CalculateLandingPoints \/ ApplyViolationPenalty \/ GetGrade

SpecLedger == Init /\ [][NextLedger]_vars

(***************************************************************************)
(* A specification for the server: the coroutines of server.py on the one  *)
(* event loop.  A coroutine runs from one await to the next without        *)
(* another coroutine running in between, so a step of the other coroutines *)
(* is taken only while simulation_loop stands at an await, or before its   *)
(* first step.                                                             *)
(***************************************************************************)
\* the positions of simulation_loop that are awaits (lines 157 and 166)
AwaitPoints_and_capture == {"sleep", "send", "capture"}

AwaitPoints == {"sleep", "send"}

\* asyncio.create_task (line 114): the new task takes its first step when
\* the event loop next comes to it
LoopStarted == [LoopIdle EXCEPT !.pc = "start"]

\* another coroutine can take a step: no simulation_loop is running, or it
\* has not taken its first step, or it stands at an await
LoopYielded ==
    \/ simulation_task # "running"
    \/ loop.pc = LoopStarted.pc
    \/ loop.pc \in AwaitPoints

\* the engine's history variables and the generator are not followed here
ServerOnly ==
    UNCHANGED <<last, before, commands, used_callsigns, issued, graded>>

\* websocket_endpoint, lines 107 to 118: accept, enter the connection, start
\* simulation_loop if there is none or it has finished.  The connections are
\* numbered in the order in which they are made.
Connect(v) ==
    /\ LoopYielded
    /\ viewer[v] = "new"
    /\ \A u \in 1..(v - 1) : viewer[u] # "new"
    /\ viewer' = [viewer EXCEPT ![v] = "open"]
    /\ active_connections' = active_connections \cup {v}
    /\ IF simulation_task \in {"none", "done"}
       THEN /\ simulation_task' = "running"
            /\ loop' = [LoopStarted EXCEPT !.tick = loop.tick,
                                           !.returned = loop.returned]
       ELSE UNCHANGED <<simulation_task, loop>>
    /\ UNCHANGED <<aircraft, is_paused, current_scenario, simulation_time,
                   scoring, received, handled>>
    /\ ServerOnly

\* websocket_endpoint, lines 125 to 130: receive_text or a send of the
\* handler raises, the connection leaves the set
Disconnect(v) ==
    /\ LoopYielded
    /\ viewer[v] = "open"
    /\ viewer' = [viewer EXCEPT ![v] = "closed"]
    /\ active_connections' = active_connections \ {v}
    /\ UNCHANGED <<aircraft, is_paused, current_scenario, simulation_time,
                   scoring, simulation_task, loop, received, handled>>
    /\ ServerOnly

\* the scenario and the command of the viewers' messages
ViewerScenario == [name |-> "Level", aircraft_count |-> 1]
ViewerCommand == [aircraftId |-> AircraftId(0), command |-> "cleared", value |-> Null]

\* a message of an open connection is handled: the engine becomes e.  The
\* handler does the same whichever connection the message came on, so the
\* first open one stands for the sender.
Handle(v, e) ==
    /\ LoopYielded
    /\ viewer[v] = "open"
    /\ \A u \in 1..(v - 1) : viewer[u] # "open"
    /\ handled.count < MaxHandled
    /\ Becomes(e)
    /\ handled' = [count |-> handled.count + 1,
                   at |-> IF simulation_task = "running" THEN loop.pc ELSE "ended"]
    /\ loop' = [loop EXCEPT !.changed =
                    (simulation_task = "running"
                        /\ loop.pc \notin {"start", "sleep"})]
    /\ UNCHANGED <<active_connections, simulation_task, viewer, received>>
    /\ ServerOnly

HandleStartScenario ==
    \E v \in Viewers :
        \E draws \in [1..AircraftCount(ViewerScenario) -> GeneratorRandomDraws] :
            Handle(v, start_scenario(Engine, ViewerScenario, draws))

HandleCommand ==
    \E v \in Viewers :
        Handle(v, execute_command(Engine, ViewerCommand.aircraftId,
                                  ViewerCommand.command, ViewerCommand.value).e)

HandlePause == \E v \in Viewers : Handle(v, toggle_pause(Engine))

HandleReset == \E v \in Viewers : Handle(v, reset(Engine))

\* simulation_loop, lines 140 to 142 and 166: the task's first step, or the
\* sleep is over; with a connection in the set, update(), and without one
\* the next sleep
LoopUpdate ==
    /\ simulation_task = "running"
    /\ loop.pc \in {"start", "sleep"}
    /\ loop.tick < MaxTicks
    /\ IF active_connections # {}
       THEN /\ Becomes(update(Engine))
            /\ loop' = [loop EXCEPT !.pc = "capture", !.tick = @ + 1,
                                    !.returned = update(Engine).aircraft,
                                    !.changed = FALSE]
       ELSE /\ loop' = [loop EXCEPT !.pc = "sleep"]
            /\ UNCHANGED <<aircraft, is_paused, current_scenario,
                           simulation_time, scoring>>
    /\ UNCHANGED <<active_connections, simulation_task, viewer, received,
                   handled>>
    /\ ServerOnly

\* `for connection in active_connections`, one step of the iterator of the
\* set conns: RuntimeError when the size of the set has changed since the
\* iteration began (caught at line 170, simulation_loop returns and the
\* locals of the iteration are gone with it); else a
\* connection not yet visited (one that entered the set during the iteration
\* may or may not be met), or the end of the iteration, line 163 and the
\* sleep.  The outcomes, as [loop, active_connections, simulation_task].
Iterate(lp, conns) ==
    IF Cardinality(conns) # Cardinality(lp.members)
    THEN {[loop |-> [LoopIdle EXCEPT !.pc = "ended", !.tick = lp.tick,
                                     !.returned = lp.returned],
           active_connections |-> conns, simulation_task |-> "done"]}
    ELSE LET due == (lp.members \ lp.visited) \cap conns
             entered == conns \ (lp.members \cup lp.visited)
         IN {[loop |-> [lp EXCEPT !.pc = "send", !.to = c,
                                  !.visited = @ \cup {c}],
              active_connections |-> conns,
              simulation_task |-> "running"] : c \in due \cup entered}
            \cup
            (IF due = {}
             THEN {[loop |-> [lp EXCEPT !.pc = "sleep", !.message = NoMessage,
                                        !.members = {}, !.visited = {},
                                        !.to = NoViewer, !.disconnected = {},
                                        !.changed = FALSE],
                    active_connections |-> conns \ lp.disconnected,
                    simulation_task |-> "running"]}
             ELSE {})

Continues(outcome) ==
    /\ loop' = outcome.loop
    /\ active_connections' = outcome.active_connections
    /\ simulation_task' = outcome.simulation_task

\* simulation_loop, lines 145 to 155: get_aircraft_data(); if there are
\* aircraft, the message and the first connection of the iteration
LoopCapture ==
    /\ simulation_task = "running"
    /\ loop.pc = "capture"
    /\ IF aircraft = <<>>
       THEN /\ loop' = [loop EXCEPT !.pc = "sleep"]
            /\ UNCHANGED <<active_connections, simulation_task>>
       ELSE \E outcome \in Iterate(
                  [loop EXCEPT !.message = [type |-> "aircraft_update",
                                            data |-> aircraft],
                               !.members = active_connections,
                               !.visited = {}, !.disconnected = {}],
                  active_connections) :
               Continues(outcome)
    /\ UNCHANGED <<aircraft, is_paused, current_scenario, simulation_time,
                   scoring, viewer, received, handled>>
    /\ ServerOnly

\* what send_text delivers with the engine's live set at ac: the live set as
\* it is at the send
Delivered_live(lp, ac) == ac

\* what send_text delivers: the message made at line 148
Delivered(lp, ac) == lp.message.data

\* simulation_loop, line 157: the send to an open connection completes
LoopSent ==
    /\ simulation_task = "running"
    /\ loop.pc = "send"
    /\ viewer[loop.to] = "open"
    /\ received' = [received EXCEPT ![loop.to] =
            [tick |-> loop.tick,
             data |-> Delivered(loop, aircraft),
             ordered |-> @.ordered /\ loop.tick > @.tick,
             late |-> loop.changed]]
    /\ \E outcome \in Iterate(loop, active_connections) : Continues(outcome)
    /\ UNCHANGED <<aircraft, is_paused, current_scenario, simulation_time,
                   scoring, viewer, handled>>
    /\ ServerOnly

\* simulation_loop, lines 158 to 160: the send raises
LoopSendFailed ==
    /\ simulation_task = "running"
    /\ loop.pc = "send"
    /\ \E outcome \in Iterate([loop EXCEPT !.disconnected = @ \cup {loop.to}],
                              active_connections) :
          Continues(outcome)
    /\ UNCHANGED <<aircraft, is_paused, current_scenario, simulation_time,
                   scoring, viewer, received, handled>>
    /\ ServerOnly

NextServer ==
    \/ \E v \in Viewers : Connect(v)
    \/ \E v \in Viewers : Disconnect(v)
    \/ HandleStartScenario
    \/ HandleCommand
    \/ HandlePause
    \/ HandleReset
    \/ LoopUpdate
    \/ LoopCapture
    \/ LoopSent
    \/ LoopSendFailed

SpecServer == Init /\ [][NextServer]_vars


(***************************************************************************)
(* Properties.                                                             *)
(***************************************************************************)
\* the state right after an update() call that found the engine unpaused
AfterUnpausedUpdate == last.op = "update" /\ ~last.paused

\* the target fields of every live aircraft, by position in the collection
Targets(ac) ==
    [i \in 1..Len(ac) |->
        <<ac[i].id, ac[i].targetAltitude, ac[i].targetHeading, ac[i].targetSpeed>>]

\* aircraft i of ac is in a violating pair with some other aircraft of ac
InViolatingPair(ac, i) ==
    \E j \in 1..Len(ac) : j # i /\ Violating(ac[i], ac[j])

\* C1: whenever execute_command returns false, the target fields of every
\* live aircraft are the same as before the call.
C1_FailedCommandKeepsTargets ==
    (last.op = "execute_command" /\ ~last.ok)
        => Targets(aircraft) = Targets(before.aircraft)

\* C2: after every unpaused update(), every aircraft that belongs to at least
\* one violating pair (horizontal distance < 3 nm and altitude difference
\* < 1000 ft) has inConflict = true.
C2_ViolatingPairFlagged ==
    AfterUnpausedUpdate
        => \A i \in 1..Len(aircraft) :
              InViolatingPair(aircraft, i) => aircraft[i].inConflict

\* C3: after every unpaused update(), every live aircraft that is in no
\* violating pair has inConflict = false, also when it is the only one left.
C3_NoViolationUnflagged ==
    AfterUnpausedUpdate
        => \A i \in 1..Len(aircraft) :
              ~InViolatingPair(aircraft, i) => ~aircraft[i].inConflict

\* C4: right after an unpaused update() no live aircraft satisfies the landing
\* predicate, and the landings counter grew during that update() by exactly
\* the number of aircraft it removed from the live set.
C4_LandedAreRemovedAndCounted ==
    AfterUnpausedUpdate
        => /\ \A i \in 1..Len(aircraft) : ~check_landing(aircraft[i])
           /\ Ids(aircraft) \subseteq Ids(before.aircraft)
           /\ scoring.landings - before.scoring.landings
                = Cardinality(Ids(before.aircraft) \ Ids(aircraft))

\* C4 witness: an unpaused update() that removed an aircraft and left another
C4_Witness ==
    /\ AfterUnpausedUpdate
    /\ Len(aircraft) > 0
    /\ Len(before.aircraft) > Len(aircraft)
    /\ scoring.landings > 0

\* the aircraft of the collection ac at the call that satisfy the landing
\* predicate at the call / after their kinematic step of this tick
InZoneAtCall(ac) == {i \in 1..Len(ac) : check_landing(ac[i])}
InZoneAfterStep(ac) == {i \in 1..Len(ac) : check_landing(update_aircraft(ac[i]))}

\* each aircraft of the set sel (positions in the collection at the call) is
\* gone after the update and the landings counter has counted it
RemovedAndCounted(sel) ==
    /\ \A i \in sel : before.aircraft[i].id \notin Ids(aircraft)
    /\ scoring.landings - before.scoring.landings >= Cardinality(sel)

\* C5 as stated: an aircraft within 2 nm of the origin and below 500 ft when
\* an unpaused update() is called, whatever its heading, speed and targets, is
\* absent from the live set when that update() returns, and counted as landed.
C5_InZoneAtCallLands ==
    AfterUnpausedUpdate => RemovedAndCounted(InZoneAtCall(before.aircraft))

\* C5 amended: an aircraft within 2 nm of the origin and below 500 ft when an
\* unpaused update() is called, and still so after that tick's kinematic step,
\* is absent from the live set when that update() returns, and counted.
C5_InZoneAfterStepLands ==
    AfterUnpausedUpdate
        => RemovedAndCounted(InZoneAtCall(before.aircraft)
                                \cap InZoneAfterStep(before.aircraft))

\* C5 witness: such an aircraft was there at the call, next to one that was
\* in the zone at the call and has climbed out of it
C5_Witness ==
    /\ AfterUnpausedUpdate
    /\ InZoneAtCall(before.aircraft) \cap InZoneAfterStep(before.aircraft) # {}
    /\ InZoneAtCall(before.aircraft) \ InZoneAfterStep(before.aircraft) # {}


\* C6: after start_scenario(s), called in any engine state, the live set holds
\* exactly s.aircraft_count aircraft with pairwise distinct ids, each one as
\* the generator makes it (none carried over), the engine is unpaused, the
\* clock is 0 and the current scenario is s.
C6_StartScenarioPopulates ==
    last.op = "start_scenario"
        => /\ Len(aircraft) = last.scenario.aircraft_count
           /\ Cardinality(Ids(aircraft)) = Len(aircraft)
           /\ \A i \in 1..Len(aircraft) :
                 \E r \in RandomDraws : aircraft[i] = generate_aircraft(i - 1, r)
           /\ ~is_paused
           /\ simulation_time = 0
           /\ current_scenario = last.scenario

\* C6 witness: start_scenario called on a paused engine that held more
\* aircraft than the new scenario has
C6_Witness ==
    /\ last.op = "start_scenario"
    /\ last.paused
    /\ last.live > last.scenario.aircraft_count

\* C7: immediately after start_scenario returns, total_score, landings,
\* violations and efficiency_bonus are all 0, whatever was scored before.
C7_StartScenarioResetsLedger ==
    last.op = "start_scenario" => scoring = NewScoring

\* C8: reset() empties the live set, sets the clock to 0, clears the pause
\* flag and the current scenario, and leaves the ledger exactly as it was.
C8_ResetFrame ==
    last.op = "reset"
        => /\ aircraft = <<>>
           /\ simulation_time = 0
           /\ ~is_paused
           /\ current_scenario = NoScenario
           /\ scoring = before.scoring

\* C8 witness: reset() of a paused engine with live aircraft and a landing
\* on the ledger
C8_Witness ==
    /\ last.op = "reset"
    /\ last.paused
    /\ last.live > 0
    /\ scoring.landings > 0

\* C9: while the engine is paused update() changes nothing (aircraft, live
\* set, clock, ledger), while execute_command, toggle_pause and reset still
\* take effect.
C9_PausedUpdateIsNoOp ==
    /\ (last.op = "update" /\ last.paused) => Engine = before
    /\ (last.op = "execute_command" /\ last.paused /\ last.ok
            /\ last.command = "cleared")
         => /\ is_paused
            /\ \E i \in 1..Len(aircraft) :
                  /\ aircraft[i].targetHeading = 0
                  /\ aircraft[i].targetAltitude = 0
                  /\ aircraft[i].targetSpeed = 140
    /\ (last.op = "toggle_pause") => is_paused = ~last.paused
    /\ (last.op = "reset" /\ last.paused) => ~is_paused /\ aircraft = <<>>

\* C9 witness: a paused update() after ticks have run, with a commanded
\* target still ahead of an aircraft
C9_Witness ==
    /\ last.op = "update"
    /\ last.paused
    /\ simulation_time > 0
    /\ \E i \in 1..Len(aircraft) :
          aircraft[i].targetAltitude # aircraft[i].altitude

\* C10: in every reachable state every live aircraft has altitude in
\* [0, 50000] and speed in [100, 500].
C10_AltitudeSpeedInRange ==
    \A i \in 1..Len(aircraft) :
        /\ MIN_ALTITUDE <= aircraft[i].altitude
        /\ aircraft[i].altitude <= MAX_ALTITUDE
        /\ MIN_SPEED <= aircraft[i].speed
        /\ aircraft[i].speed <= MAX_SPEED


\* C11: in every reachable state every live aircraft's heading lies in
\* [0, 360) degrees, after any update(), the tick in which the heading snaps
\* to its target included, whatever heading was commanded.
C11_HeadingInRange ==
    \A i \in 1..Len(aircraft) :
        0 <= aircraft[i].heading /\ aircraft[i].heading < 3600

\* the length of the shorter arc between the headings h and t, in tenths
ArcDistance(h, t) ==
    LET d == (t - h) % 3600
    IN IF d > 1800 THEN 3600 - d ELSE d

\* C12: for altitude, heading and speed alike, an unpaused update() never
\* increases the remaining distance from the value to its target (for the
\* heading, the shorter arc), and a value that is at its target stays there;
\* so the value, with its target left alone, closes in on the target, reaches
\* it and holds it.
C12_NeverMovesAway ==
    AfterUnpausedUpdate
        => \A i \in 1..Len(aircraft) :
              LET j == DictIndex(before.aircraft, aircraft[i].id)
                  a == aircraft[i]
                  b == before.aircraft[j]
              IN j # 0 =>
                  /\ Abs(a.targetAltitude - a.altitude)
                        <= Abs(b.targetAltitude - b.altitude)
                  /\ ArcDistance(a.heading, a.targetHeading)
                        <= ArcDistance(b.heading, b.targetHeading)
                  /\ Abs(a.targetSpeed - a.speed)
                        <= Abs(b.targetSpeed - b.speed)


\* the commands execute_command knows, and those that take a number
KnownCommands == {"heading", "altitude", "speed", "approach", "cleared"}
ValueCommands == {"heading", "altitude", "speed"}

\* C13: the result of execute_command is false exactly when aircraft_id is
\* not a live aircraft, or the command is not one of heading, altitude, speed,
\* approach, cleared, or the command is heading, altitude or speed and the
\* value cannot be coerced to a number; in every other case, the value a
\* number or a numeric string, it is true.
C13_FalseExactlyWhenRejected ==
    \A aircraft_id \in CommandIds, command \in Commands, value \in CommandValues :
        execute_command(Engine, aircraft_id, command, value).ok
            <=> /\ aircraft_id \in Ids(aircraft)
                /\ command \in KnownCommands
                /\ command \in ValueCommands => ~FloatRaises(value)

\* the aircraft a, its target fields apart
Untargeted(a) ==
    [a EXCEPT !.targetHeading = 0, !.targetAltitude = 0, !.targetSpeed = 0]

\* the change of the targets from aircraft b to aircraft a is one that the
\* command makes
TargetsSetBy(command, b, a) ==
    LET same(f) == a[f] = b[f]
    IN CASE command = "heading" ->
                same("targetAltitude") /\ same("targetSpeed")
         [] command = "altitude" ->
                same("targetHeading") /\ same("targetSpeed")
         [] command = "speed" ->
                same("targetHeading") /\ same("targetAltitude")
         [] command = "approach" ->
                /\ a.targetHeading = 0
                /\ a.targetAltitude = 3000
                /\ a.targetSpeed = 180
         [] command = "cleared" ->
                /\ a.targetHeading = 0
                /\ a.targetAltitude = 0
                /\ a.targetSpeed = 140
         [] OTHER -> FALSE

\* C14: an execute_command that returns true changes target fields of one
\* aircraft and nothing else: heading only targetHeading, altitude only
\* targetAltitude, speed only targetSpeed, approach sets the targets to
\* (0, 3000, 180) and cleared to (0, 0, 140) whatever the value; position,
\* altitude, heading and speed of that aircraft, every other aircraft, the
\* live set, the ledger, the clock and the pause flag are as before.
C14_SuccessSetsOnlyTargets ==
    (last.op = "execute_command" /\ last.ok)
        => /\ Engine.is_paused = before.is_paused
           /\ Engine.simulation_time = before.simulation_time
           /\ Engine.scoring = before.scoring
           /\ Engine.current_scenario = before.current_scenario
           /\ Len(aircraft) = Len(before.aircraft)
           /\ \E i \in 1..Len(aircraft) :
                 /\ \A j \in 1..Len(aircraft) :
                        j # i => aircraft[j] = before.aircraft[j]
                 /\ Untargeted(aircraft[i]) = Untargeted(before.aircraft[i])
                 /\ TargetsSetBy(last.command, before.aircraft[i], aircraft[i])

\* C14 witness: a successful "cleared" on a paused engine that holds other
\* aircraft too, after a tick has run
C14_Witness ==
    /\ last.op = "execute_command"
    /\ last.ok
    /\ last.command = "cleared"
    /\ Len(aircraft) > 1
    /\ aircraft # before.aircraft
    /\ simulation_time > 0


\* C15: across any sequence of start_scenario, update and reset calls on one
\* engine, an id that has been assigned to an aircraft is never assigned to
\* another aircraft later: the ids assigned by the generate_aircraft calls
\* made so far are pairwise distinct.
C15_IdsNeverReassigned ==
    \A i \in 1..Len(issued.ids), j \in 1..Len(issued.ids) :
        i # j => issued.ids[i] # issued.ids[j]

\* the callsign is the fallback TEST####
IsFallback(callsign) == Head(callsign) = "TEST"

\* C16: a callsign that generate_callsign returns and that is not the
\* fallback was absent from used_callsigns before the call and is in it
\* after, so the callsigns issued other than fallbacks are pairwise distinct,
\* across start_scenario calls too; the fallback is returned only after
\* max_attempts attempts that all drew a callsign of used_callsigns, leaves
\* used_callsigns as it was, and the aircraft is created all the same.
C16_CallsignsIssuedOnce ==
    /\ \A i \in 1..Len(issued.callsigns), j \in 1..Len(issued.callsigns) :
          (i # j /\ ~IsFallback(issued.callsigns[i]))
              => issued.callsigns[i] # issued.callsigns[j]
    /\ issued.call.made =>
          LET call == issued.call
          IN IF IsFallback(call.callsign)
             THEN /\ call.attempts = max_attempts
                  /\ call.drawn \subseteq call.before
                  /\ call.after = call.before
                  /\ call.callsign \notin call.after
             ELSE /\ call.callsign \notin call.before
                  /\ call.after = call.before \cup {call.callsign}
    /\ used_callsigns = issued.call.after
    /\ last.op = "start_scenario"
          => /\ Len(aircraft) = last.scenario.aircraft_count
             /\ Len(issued.callsigns) >= Len(aircraft)

\* C16 witness: a second start_scenario of several aircraft whose last
\* generate_callsign call fell back, callsigns having been issued before
C16_Witness ==
    /\ last.op = "start_scenario"
    /\ issued.scenarios = 2
    /\ issued.call.made
    /\ IsFallback(issued.call.callsign)
    /\ Len(aircraft) > 1
    /\ \E i \in 1..Len(issued.callsigns) : ~IsFallback(issued.callsigns[i])


\* the positions in the collection at the call of the aircraft that the
\* update() removed
LandedInTick ==
    {k \in 1..Len(before.aircraft) : before.aircraft[k].id \notin Ids(aircraft)}

\* C17: within one update() every aircraft that lands in the tick is removed
\* before the conflict sweep: the sweep examines pairs of remaining aircraft
\* only, so the flag of a remaining aircraft becomes true in the tick only
\* for a violating pair it forms with another remaining aircraft, never for
\* an aircraft that landed, however close that one was.
C17_LandedNotSwept ==
    AfterUnpausedUpdate
        => /\ aircraft = check_conflicts(aircraft)
           /\ \A i \in 1..Len(aircraft) :
                 LET j == DictIndex(before.aircraft, aircraft[i].id)
                 IN (j # 0 /\ aircraft[i].inConflict
                        /\ ~before.aircraft[j].inConflict)
                      => InViolatingPair(aircraft, i)

\* C17 witness: an aircraft landed in the tick within 3 nm and 1000 ft of an
\* aircraft that remains, whose flag is false
C17_Witness ==
    /\ AfterUnpausedUpdate
    /\ \E k \in LandedInTick, i \in 1..Len(aircraft) :
          /\ Violating(update_aircraft(before.aircraft[k]), aircraft[i])
          /\ ~aircraft[i].inConflict

\* the points of a landing as the claim gives them
ClaimedPoints(speed, altitude) ==
    100 + (IF speed < 150 THEN 20 ELSE IF speed < 170 THEN 10 ELSE 0)
        + (IF altitude < 1000 THEN 10 ELSE 0)

RECURSIVE SumClaimedPoints(_)
SumClaimedPoints(landed) ==
    IF landed = {} THEN 0
    ELSE LET k == CHOOSE n \in landed : TRUE
             a == update_aircraft(before.aircraft[k])
         IN ClaimedPoints(a.speed, a.altitude) + SumClaimedPoints(landed \ {k})

\* C18: for every landing the points added to total_score are 100 + (20 if
\* speed < 150, 10 if 150 <= speed < 170, else 0) + (10 if altitude < 1000,
\* else 0), on the speed and altitude the aircraft has after the tick's
\* kinematic step, and landings grows by exactly 1.
C18_LandingPoints ==
    AfterUnpausedUpdate
        => /\ scoring.total_score - before.scoring.total_score
                = SumClaimedPoints(LandedInTick)
           /\ scoring.landings - before.scoring.landings
                = Cardinality(LandedInTick)

\* C18 witness: a landing at 149 kt of an aircraft that came into the tick at
\* 150 kt, scored 130
C18_Witness ==
    /\ AfterUnpausedUpdate
    /\ LandedInTick # {}
    /\ \E k \in LandedInTick :
          /\ before.aircraft[k].speed = 150
          /\ update_aircraft(before.aircraft[k]).speed = 149
    /\ scoring.total_score - before.scoring.total_score = 130


\* C19: with simulation_loop and the viewers' handlers running concurrently,
\* no execute_command, start_scenario, toggle_pause or reset takes effect
\* between the start and the end of an update() call, nor between update()
\* returning and the making of that tick's message: no message is handled
\* while simulation_loop stands between the two, and the message being sent
\* holds the live set as it was when update() returned.
C19_TickIsAtomic ==
    /\ handled.at # "capture"
    /\ (simulation_task = "running" /\ loop.pc = "send")
          => loop.message.data = loop.returned

\* C19 witness: a message was handled while the broadcast of a tick stood at a
\* send, and the engine's live set is no longer the one of the message
C19_Witness ==
    /\ simulation_task = "running"
    /\ loop.pc = "send"
    /\ handled.at = "send"
    /\ loop.changed
    /\ aircraft # loop.message.data

\* C20: every viewer receives the aircraft_update messages in strictly
\* increasing tick order, and all viewers that receive the message of tick N
\* receive the same content, the live set as it was when the update() of
\* tick N returned, whatever was handled while the broadcast stood at a send.
C20_SameSnapshotInOrder ==
    /\ \A v \in Viewers : received[v].ordered
    /\ \A v \in Viewers :
          (received[v].tick > 0 /\ received[v].tick = loop.tick)
              => received[v].data = loop.returned
    /\ \A v \in Viewers, w \in Viewers :
          (received[v].tick > 0 /\ received[v].tick = received[w].tick)
              => received[v].data = received[w].data

\* C20 witness: two viewers have received the message of the same tick, one
\* of them after a message was handled that changed the live set
C20_Witness ==
    \E v \in Viewers, w \in Viewers :
        /\ v # w
        /\ received[v].tick > 0
        /\ received[v].tick = received[w].tick
        /\ received[v].tick = loop.tick
        /\ ~received[v].late
        /\ received[w].late
        /\ received[w].data # aircraft


\* simulation_loop takes a step from a send: the send to loop.to completes or
\* raises
StepFromSend ==
    /\ simulation_task = "running"
    /\ loop.pc = "send"
    /\ (loop'.pc # "send" \/ loop'.to # loop.to)

\* the connections whose send of the tick's message has raised, once the
\* step from the send to loop.to is taken
FailedSends ==
    loop.disconnected
        \cup (IF received'[loop.to] = received[loop.to] THEN {loop.to} ELSE {})

\* C21: when the send of a tick's snapshot to one viewer fails, the engine is
\* left as it is, simulation_loop does not end, and when the iteration is
\* over only the viewers whose send failed have been taken out of
\* active_connections and every other connection of the iteration has
\* received that tick's snapshot, simulation_loop going to its sleep before
\* the next tick.
C21_SendFailureIsolated ==
    [][(StepFromSend /\ FailedSends # {})
          => /\ Engine' = Engine
             /\ loop'.pc \in {"send", "sleep"}
             /\ loop'.pc = "sleep"
                   => /\ active_connections' = active_connections \ FailedSends
                      /\ \A v \in active_connections' \cap loop.members :
                            /\ received'[v].tick = loop.tick
                            /\ received'[v].data = loop.message.data]_vars

\* the connections of the running iteration that are still in
\* active_connections and have not been sent the tick's message
Waiting ==
    IF simulation_task = "running" /\ loop.pc = "send"
    THEN ((loop.members \ loop.visited) \cap active_connections) \ {loop.to}
    ELSE {}

\* C22: while the send to one viewer is suspended and has not completed, the
\* tick's message can be delivered to each other connection that is waiting
\* for it, and the next update() can be called, the suspended send staying
\* as it is.
C22_SuspendedSendDelaysNothing ==
    (simulation_task = "running" /\ loop.pc = "send")
        => /\ \A w \in Waiting :
                 ENABLED (/\ NextServer
                          /\ received'[w].tick = loop.tick
                          /\ received'[loop.to] = received[loop.to])
           /\ loop.tick < MaxTicks
                 => ENABLED (/\ NextServer
                             /\ loop'.tick = loop.tick + 1
                             /\ received'[loop.to] = received[loop.to])

\* C23: after every update() made with a connection in the set, a message
\* with the resulting live set is made and sent, also when the live set is
\* empty: simulation_loop goes from the update() to a send of the live set as
\* update() returned it, and when it comes to its sleep no connection's last
\* received snapshot lists an aircraft that is not in that live set.
C23_EveryUpdateBroadcast ==
    [][/\ (simulation_task = "running" /\ loop.pc = "capture"
              /\ loop'.pc # "capture")
          => /\ loop'.pc = "send"
             /\ loop'.message.data = loop.returned
       /\ (simulation_task = "running" /\ loop.pc \in {"capture", "send"}
              /\ loop'.pc = "sleep")
          => \A v \in active_connections' \cap loop.members :
                {received'[v].data[i].id : i \in 1..Len(received'[v].data)}
                    \subseteq Ids(loop.returned)]_vars

\* C26: while a connection is in active_connections, simulation_loop has not
\* ended, whatever connections entered or left the set during an iteration
\* over it.
C26_LoopNeverStops ==
    simulation_task = "done" => active_connections = {}

\* C27: one simulation_loop at a time: a new one is started only when there
\* is none or the one before has ended, and every update() but the first is
\* called when simulation_loop has slept one tick period since the update()
\* before it.
C27_OneLoopOneTickPerPeriod ==
    [][/\ (loop'.pc = "start" /\ loop.pc # "start")
          => simulation_task \in {"none", "done"}
       /\ (simulation_task = "running" /\ loop'.tick = loop.tick + 1
              /\ loop.tick > 0)
          => loop.pc = "sleep"]_vars


\* the grades from the floor up
GradeRank(g) ==
    CASE g = "F" -> 0 [] g = "D" -> 1 [] g = "C" -> 2 [] g = "B" -> 3
      [] g = "A" -> 4 [] g = "A+" -> 5

\* C24: the grade get_grade returns is A+ iff violations = 0 and landings >=
\* 5, A iff violations = 0 and landings < 5, F whenever violations >= 4, and
\* for the same landings count it is no better than the grade of any smaller
\* violations count.
C24_GradeFromLedger ==
    graded.made
        => /\ graded.grade = "A+"
                <=> (graded.violations = 0 /\ graded.landings >= 5)
           /\ graded.grade = "A"
                <=> (graded.violations = 0 /\ graded.landings < 5)
           /\ graded.violations >= 4 => graded.grade = "F"
           /\ \A fewer \in 0..graded.violations :
                 GradeRank(graded.grade)
                    <= GradeRank(get_grade([scoring EXCEPT
                                               !.violations = fewer,
                                               !.landings = graded.landings]))

\* C24 witness: get_grade returned F for a ledger of five landings and four
\* violations, whose grade without violations is A+
C24_Witness ==
    /\ graded.made
    /\ graded.landings >= 5
    /\ graded.violations >= 4
    /\ graded.grade = "F"
    /\ get_grade([scoring EXCEPT !.violations = 0,
                                 !.landings = graded.landings]) = "A+"


\* no command has been issued for the aircraft a since start_scenario made
\* it: the commands of these specifications go to the first aircraft
Uncommanded(a) == a.id # AircraftId(0) \/ commands = 0

\* the aircraft g as generated, after ticks unpaused update() calls that each
\* moved it by the displacement of the first and changed nothing else
Cruised(g, ticks) ==
    [g EXCEPT !.x = @ + ticks * (update_aircraft(g).x - g.x),
              !.y = @ + ticks * (update_aircraft(g).y - g.y)]

\* the aircraft record without its inConflict flag
Unflagged(a) == [a EXCEPT !.inConflict = FALSE]

\* C25 as stated: every aircraft made by start_scenario and not commanded
\* since has, after any number of unpaused update() calls, the altitude,
\* heading and speed it was generated with, its targets equal to them, and
\* nothing but its position changed, by the same displacement every tick.
C25_OnlyPositionChanges ==
    \A i \in 1..Len(aircraft) :
        Uncommanded(aircraft[i])
            => \E r \in CruiseDraws :
                  aircraft[i] = Cruised(generate_aircraft(i - 1, r),
                                        simulation_time)

\* C25 amended: every aircraft made by start_scenario and not commanded since
\* has, after any number of unpaused update() calls, the altitude, heading
\* and speed it was generated with, its targets equal to them, and its
\* position moved by the same displacement every tick; besides the position
\* only the inConflict flag, which the conflict sweep of every update() sets
\* anew, may differ from the generated aircraft.
C25_CruiseKeepsState ==
    \A i \in 1..Len(aircraft) :
        Uncommanded(aircraft[i])
            => \E r \in CruiseDraws :
                  LET g == generate_aircraft(i - 1, r)
                  IN /\ g.targetAltitude = g.altitude
                     /\ g.targetHeading = g.heading
                     /\ g.targetSpeed = g.speed
                     /\ Unflagged(aircraft[i]) = Cruised(g, simulation_time)

\* C25 witness: after the second unpaused update() since start_scenario, the
\* second aircraft, never commanded, has moved in x and in y, while the first
\* has been given another target
C25_Witness ==
    /\ AfterUnpausedUpdate
    /\ simulation_time = 2
    /\ Len(aircraft) = 2
    /\ commands > 0
    /\ \E r \in CruiseDraws :
          LET g == generate_aircraft(1, r)
          IN /\ Unflagged(aircraft[2]) = Cruised(g, 2)
             /\ aircraft[2].x # g.x
             /\ aircraft[2].y # g.y


\* C28: no engine operation changes the ledger's violations counter or takes
\* a penalty off total_score, also on the ticks whose conflict sweep flags
\* aircraft: violations is 0, the grade is A or A+, and after every operation
\* total_score is at least what the operation found.
C28_NoViolationEverCounted ==
    /\ scoring.violations = 0
    /\ scoring.violations = before.scoring.violations
    /\ get_grade(scoring) \in {"A", "A+"}
    /\ scoring.total_score >= before.scoring.total_score

\* C28 witness: an unpaused update() whose sweep flagged a violating pair,
\* with a landing on the ledger and no violation
C28_Witness ==
    /\ AfterUnpausedUpdate
    /\ \E i \in 1..Len(aircraft) :
          aircraft[i].inConflict /\ InViolatingPair(aircraft, i)
    /\ scoring.landings > 0
    /\ scoring.violations = 0
    /\ get_grade(scoring) = "A"


\* C29: in every state the engine's operations reach, total_score lies
\* between 110 and 130 times landings: update() adds, for each aircraft it
\* lands, 1 to landings and 110 to 130 points to total_score (a landing
\* aircraft is below 500 ft and has the altitude bonus), and no other
\* operation, nor an update() without a landing, changes either.
C29_ScoreWithinLandings ==
    LET landed == IF AfterUnpausedUpdate THEN Cardinality(LandedInTick) ELSE 0
        points == scoring.total_score - before.scoring.total_score
    IN /\ 110 * scoring.landings <= scoring.total_score
       /\ scoring.total_score <= 130 * scoring.landings
       /\ scoring.landings = before.scoring.landings + landed
       /\ 110 * landed <= points
       /\ points <= 130 * landed

\* C29 witness: a reset or start_scenario that found two landings on the
\* ledger, one of 110 and one of 130 points, and left them there
C29_Witness ==
    /\ last.op \in {"reset", "start_scenario"}
    /\ before.scoring.landings = 2
    /\ before.scoring.total_score = 240
    /\ scoring.landings = 2
    /\ scoring.total_score = 240

=============================================================================
